---- MODULE Spec2Model ----
(***************************************************************************)
(* A model of py-evm's VM base class (evm/vm/base.py) and of the           *)
(* environment opcodes (evm/logic/context.py).                             *)
(*                                                                         *)
(*   Spec             the VM's state_db scoped acquisition, VM.snapshot    *)
(*                    and VM.revert over a content-addressed account db    *)
(*   SpecViews        state_db alone, with the history of what each        *)
(*                    acquisition saw and did                              *)
(*   SpecCopy         the copy opcodes acting on a Computation's memory    *)
(*   SpecLoad         the opcodes that push a word on a Computation's stack*)
(*   SpecDispatch     VM.get_opcode_fn over the configured opcode table    *)
(*   SpecRead         the opcodes that read the account state              *)
(*   SpecImport       VM.import_block, apply_transaction and mine_block    *)
(*   SpecAncestor     VM.get_ancestor_hash over a chain of headers         *)
(*   SpecConfigure    VM.configure over the classes that exist             *)
(***************************************************************************)
EXTENDS Integers, Sequences, FiniteSets, TLC

VARIABLES
    db,          \* the account database: the set of world states whose tries are stored
    state_root,  \* self.block.header.state_root
    scopes,      \* the open state_db acquisitions, outermost first
    token,       \* the tokens VM.snapshot has returned and the caller holds (at most one)
    snap,        \* history: the world state at the time of that VM.snapshot
    last,        \* history: the operation that produced the current state
    opened,      \* history: per open acquisition, its first root and its use
    shared,      \* history: all mutations so far applied to one single state
    clean,       \* history: no error or divergence has been seen so far
    seen,        \* history: the use made of the acquisition that left scope last
    msg_data,       \* computation.msg.data
    code,           \* computation.code, the bytes of the executing code
    memory,         \* computation.memory
    gas_remaining,  \* computation.gas_meter.gas_remaining
    stack,          \* computation.stack, the top last
    error,          \* the error the computation ended with, "" while it runs
    op,             \* history: the opcode executed last and the words it popped
    write_call,     \* history: the arguments of the last call of memory.write
    opcodes,        \* the opcodes attribute of the VM class
    dispatched,     \* history: the last call of get_opcode_fn and its outcome
    block_in,    \* the block passed to import_block
    block,       \* self.block, the block being built
    pc,          \* where import_block, apply_transaction and mine_block stand
    events,      \* history: the steps of import_block taken so far, in order
    mining,      \* history: the header root when mine_block began, its credits, its header writes
    walk,        \* where get_ancestor_hash stands: the header it holds, the links followed
    classes,     \* the VM classes that exist, the base class first
    configured   \* history: the last call of VM.configure and its outcome

vmVars == <<db, state_root, scopes, token, snap, last>>
viewVars == <<opened, shared, clean, seen>>
compVars == <<msg_data, code, memory, gas_remaining, stack, error, op, write_call>>
dispVars == <<opcodes, dispatched>>
blockVars == <<block_in, block, pc, events, mining>>
otherVars == <<walk, classes, configured>>
restVars == <<blockVars, otherVars>>
vars == <<vmVars, viewVars, compVars, dispVars, restVars>>

(***************************************************************************)
(* Bounds of the model.                                                    *)
(***************************************************************************)
MaxBalance == 1
MaxTransactions == 2
MaxUncles == 2
MaxClasses == 3
MaxNonce == 1
MaxDepth == 1
MaxNesting == 2
MaxRoots == 2

Addresses == {1, 2}
StorageKeys == {0}
StorageValues == {0, 1}
CodeTable == << <<>>, <<96, 0>> >>
Deltas == {-1, 1}

(***************************************************************************)
(* The account state behind evm.state.State.  A world state maps every     *)
(* address to an account; an address with no account reads as the blank    *)
(* account.  The root hash of a world state is an injective digest of its  *)
(* content, and a State resolves its root through the database.            *)
(***************************************************************************)
BlankAccount ==
    [balance |-> 0, nonce |-> 0, code |-> <<>>, storage |-> [k \in StorageKeys |-> 0]]

BlankWorld == [a \in Addresses |-> BlankAccount]

\* evm.constants, in units of NEPHEW_REWARD (BLOCK_REWARD is 32 of them)
BLOCK_REWARD == 32
NEPHEW_REWARD == BLOCK_REWARD \div 32
UNCLE_DEPTH_PENALTY_FACTOR == 8

\* No balance of the model exceeds what the accounts hold at the start and
\* one block can credit.
MaxWealth == (MaxBalance + 4) + (MaxUncles + 1) * (BLOCK_REWARD + NEPHEW_REWARD)

CodeIndex(bytes) == CHOOSE i \in 1..Len(CodeTable) : CodeTable[i] = bytes

SetMin(S) == CHOOSE x \in S : \A y \in S : x <= y

RECURSIVE StorageDigest(_, _)
StorageDigest(keys, storage) ==
    IF keys = {} THEN 0
    ELSE LET k == SetMin(keys)
         IN  storage[k] + (Cardinality(StorageValues) * StorageDigest(keys \ {k}, storage))

StorageRadix == Cardinality(StorageValues) ^ Cardinality(StorageKeys)

AccountDigest(acct) ==
    acct.balance
        + (MaxWealth + 1) * (acct.nonce
        + (MaxNonce + 1) * ((CodeIndex(acct.code) - 1)
        + Len(CodeTable) * StorageDigest(StorageKeys, acct.storage)))

AccountRadix == (MaxWealth + 1) * (MaxNonce + 1) * Len(CodeTable) * StorageRadix

RECURSIVE WorldDigest(_, _)
WorldDigest(addrs, world) ==
    IF addrs = {} THEN 0
    ELSE LET a == SetMin(addrs)
         IN  AccountDigest(world[a]) + (AccountRadix * WorldDigest(addrs \ {a}, world))

\* State.root_hash of a world state
RootHash(world) == 1 + WorldDigest(Addresses, world)

\* State(db, root_hash): the world state the database stores under a root
Resolve(d, root) == CHOOSE world \in d : RootHash(world) = root

get_balance(d, root, addr) == Resolve(d, root)[addr].balance
get_nonce(d, root, addr) == Resolve(d, root)[addr].nonce
get_code(d, root, addr) == Resolve(d, root)[addr].code
get_storage(d, root, addr, key) == Resolve(d, root)[addr].storage[key]

\* The accounts the bodies write to.
Written == {1}

\* The mutating methods of State, as functions of the world state.
Mutations ==
    [kind : {"delta_balance"}, addr : Written, key : {0}, arg : Deltas]
        \cup [kind : {"increment_nonce"}, addr : Written, key : {0}, arg : {1}]
        \cup [kind : {"set_code"}, addr : Written, key : {0}, arg : 1..Len(CodeTable)]
        \cup [kind : {"set_storage"}, addr : Written, key : StorageKeys, arg : StorageValues]

ApplyMutation(world, m) ==
    CASE m.kind = "delta_balance" ->
            [world EXCEPT ![m.addr].balance = @ + m.arg]
      [] m.kind = "increment_nonce" ->
            [world EXCEPT ![m.addr].nonce = @ + 1]
      [] m.kind = "set_code" ->
            [world EXCEPT ![m.addr].code = CodeTable[m.arg]]
      [] m.kind = "set_storage" ->
            [world EXCEPT ![m.addr].storage[m.key] = m.arg]

InRange(world) ==
    \A a \in Addresses :
        /\ world[a].balance \in 0..MaxBalance
        /\ world[a].nonce \in 0..MaxNonce

\* State.snapshot() and State.revert(snapshot): the token is the root hash
StateSnapshot(root) == root
StateRevert(root, snapshot) == snapshot

(***************************************************************************)
(* VM.state_db (base.py 60-70), a generator-based context manager:         *)
(*   enter    state = State(db, root_hash = header.state_root); yield      *)
(*   exit     read_only: assert state.root_hash == header.state_root       *)
(*            otherwise: write state.root_hash into the header if it       *)
(*            differs                                                      *)
(* The code after the yield runs only when the body ends normally: an      *)
(* exception of the body is thrown into the generator at the yield, which  *)
(* has no try/finally around it.                                           *)
(***************************************************************************)
\* line 62: the root a new State is bound to
AcquireRoot(header) == header

\* line 67: the assertion a read-only acquisition makes on release
ReleaseOk(read_only, header, root) == read_only => (root = header)

ReleaseHeaderNeverWritten(read_only, header, root) == header

\* lines 64-70: the header's state_root after a normal release
ReleaseHeader(read_only, header, root) ==
    IF read_only THEN header
    ELSE IF header # root THEN root ELSE header

RaiseHeaderReleased(read_only, header, root) ==
    IF read_only THEN header
    ELSE IF header # root THEN root ELSE header

\* line 63: the header's state_root after the body left the scope by an exception
RaiseHeader(read_only, header, root) == header

Scope(read_only, root) == [read_only |-> read_only, root |-> root]

Top == scopes[Len(scopes)]

Genesis == [BlankWorld EXCEPT ![1].balance = 1]

\* History: the operation that produced the current state; the kind of the
\* acquisition it acted on; whether it ended without an error; whether it
\* changed the header; and whether the State it acted on holds a root that
\* the header does not hold afterwards.
Event(name, read_only, ok, wrote, stale) ==
    [op |-> name, read_only |-> read_only, ok |-> ok, wrote |-> wrote, stale |-> stale]

state_db_enter(read_only) ==
    /\ scopes' = Append(scopes, Scope(read_only, AcquireRoot(state_root)))
    /\ state_root' = state_root
    /\ last' = Event("enter", read_only, TRUE, state_root' # state_root,
                     scopes'[Len(scopes')].root # state_root')
    /\ UNCHANGED <<db, token, snap, compVars, dispVars, restVars>>

\* A call of a mutating State method in the body, on any State still in scope.
state_mutate(i, m) ==
    LET world == ApplyMutation(Resolve(db, scopes[i].root), m)
    IN  /\ InRange(world)
        /\ world \in db \/ Cardinality(db) < MaxRoots
        /\ db' = db \cup {world}
        /\ scopes' = [scopes EXCEPT ![i].root = RootHash(world)]
        /\ state_root' = state_root
        /\ last' = Event("mutate", scopes[i].read_only, TRUE, state_root' # state_root,
                         scopes'[i].root # state_root')
        /\ UNCHANGED <<token, snap, compVars, dispVars, restVars>>

\* The body of the innermost scope ends normally.  A failed assertion leaves
\* the scope by an AssertionError, which also leaves the k enclosing scopes
\* it is not caught in.
state_db_exit(k) ==
    /\ scopes # <<>>
    /\ LET ok == ReleaseOk(Top.read_only, state_root, Top.root)
           header == ReleaseHeader(Top.read_only, state_root, Top.root)
       IN  /\ k = 0 \/ ~ok
           /\ state_root' = IF ok THEN header ELSE state_root
           /\ scopes' = SubSeq(scopes, 1, Len(scopes) - 1 - k)
           /\ last' = Event("exit", Top.read_only, ok, state_root' # state_root,
                            Top.root # state_root')
    /\ UNCHANGED <<db, token, snap, compVars, dispVars, restVars>>

\* The body of the innermost scope raises; the exception leaves k >= 1 scopes.
body_raise(k) ==
    /\ k >= 1
    /\ k <= Len(scopes)
    /\ state_root' = RaiseHeader(Top.read_only, state_root, Top.root)
    /\ scopes' = SubSeq(scopes, 1, Len(scopes) - k)
    /\ last' = Event("raise", Top.read_only, FALSE, state_root' # state_root,
                     Top.root # state_root')
    /\ UNCHANGED <<db, token, snap, compVars, dispVars, restVars>>

(***************************************************************************)
(* VM.snapshot (base.py 254-261) and VM.revert (base.py 263-270).          *)
(***************************************************************************)
snapshot ==
    LET root == AcquireRoot(state_root)
        ok == ReleaseOk(TRUE, state_root, root)
    IN  /\ token' = IF ok THEN <<StateSnapshot(root)>> ELSE token
        /\ snap' = IF ok THEN Resolve(db, root) ELSE snap
        /\ state_root' = state_root
        /\ last' = Event("snapshot", TRUE, ok, state_root' # state_root, root # state_root')
        /\ UNCHANGED <<db, scopes, compVars, dispVars, restVars>>

revertReadOnly ==
    /\ token # <<>>
    /\ LET root == StateRevert(AcquireRoot(state_root), token[1])
       IN  /\ state_root' = state_root
           /\ last' = Event("revert", TRUE, ReleaseOk(TRUE, state_root, root),
                            FALSE, root # state_root)
    /\ UNCHANGED <<db, scopes, token, snap, compVars, dispVars, restVars>>

revert ==
    /\ token # <<>>
    /\ LET root == StateRevert(AcquireRoot(state_root), token[1])
           header == ReleaseHeader(FALSE, state_root, root)
       IN  /\ state_root' = header
           /\ last' = Event("revert", FALSE, TRUE, header # state_root, root # header)
    /\ UNCHANGED <<db, scopes, token, snap, compVars, dispVars, restVars>>

(***************************************************************************)
(* History kept beside the acquisitions: for each open acquisition the     *)
(* root it was opened on and whether its body has called a mutating        *)
(* method; the state that results from applying every mutation, in order,  *)
(* to one single state; and whether the run is still free of errors.       *)
(***************************************************************************)
\* Whether the current state shows two views of the state that differ: a
\* State just opened on a root that lacks a mutation made earlier, or a header
\* that lacks one after every acquisition has released.
Diverged ==
    \/ last.op = "enter" /\ Resolve(db, Top.root) # shared
    \/ scopes = <<>> /\ Resolve(db, state_root) # shared

Track(still, world) ==
    /\ clean' = (clean /\ ~Diverged /\ still)
    /\ shared' = IF clean' THEN world ELSE BlankWorld

ObserveEnter ==
    /\ opened' = Append(opened, [root0 |-> state_root, dirty |-> FALSE])
    /\ Track(TRUE, shared)
    /\ seen' = seen

ObserveMutate(i, m) ==
    /\ opened' = [opened EXCEPT ![i].dirty = TRUE]
    /\ Track(TRUE, ApplyMutation(shared, m))
    /\ seen' = seen

ObserveLeave ==
    /\ opened' = SubSeq(opened, 1, Len(scopes'))
    /\ Track(last'.ok, shared)
    /\ seen' = [dirty |-> opened[Len(opened)].dirty,
                changed |-> Top.root # opened[Len(opened)].root0]

(***************************************************************************)
(* The parts of a Computation the environment opcodes act on: Memory, the  *)
(* GasMeter, the CodeStream, and the helpers of evm.utils.                 *)
(***************************************************************************)
GAS_COPY == 3
MaxGas == 6
MaxStack == 2

CallData == { <<>>, <<1>>, <<0, 7, 9>> }
Programs == { <<96, 0, 128, 0>> }
MemOffsets == {0, 31}
SrcOffsets == {0, 2, 5}
Sizes == {0, 2, 32, 33}
LoadOffsets == {0, 1, 2, 3, 40}
GasBudgets == {0, GAS_COPY, MaxGas}

Min(a, b) == IF a <= b THEN a ELSE b

Zeros(n) == [i \in 1..n |-> 0]

SliceWithoutStop(data, start, stop) == SubSeq(data, start + 1, Len(data))

SliceWithoutStart(data, start, stop) == SubSeq(data, 1, Min(stop - start, Len(data)))

\* data[start:stop] of a bytes value, for 0 <= start <= stop
Slice(data, start, stop) == SubSeq(data, start + 1, Min(stop, Len(data)))

\* evm.utils.numeric.ceil32
ceil32(value) ==
    IF value % 32 = 0 THEN value ELSE value + 32 - (value % 32)

\* evm.utils.padding.pad_right
pad_right(value, to_size, pad_with) ==
    IF Len(value) >= to_size THEN value
    ELSE value \o [i \in 1..(to_size - Len(value)) |-> pad_with]

\* bytes.lstrip(byte)
RECURSIVE lstrip(_, _)
lstrip(value, byte) ==
    IF value # <<>> /\ Head(value) = byte THEN lstrip(Tail(value), byte) ELSE value

\* Memory.extend(start_position, size)
MemoryExtend(mem, start, size) ==
    IF start + size > Len(mem)
    THEN mem \o Zeros(ceil32(start + size) - Len(mem))
    ELSE mem

\* computation.extend_memory(start_position, size)
extend_memory(mem, start, size) == MemoryExtend(mem, start, size)

\* The preconditions of Memory.write(start_position, size, value)
MemoryWriteOk(mem, start, size, value) ==
    Len(value) = size /\ start + size <= Len(mem)

\* Memory.write(start_position, size, value)
MemoryWrite(mem, start, size, value) ==
    [i \in 1..Len(mem) |->
        IF i > start /\ i <= start + size /\ i - start <= Len(value)
        THEN value[i - start] ELSE mem[i]]

\* CodeStream: seek(position), then read(size)
CodeRead(bytes, position, size) ==
    SubSeq(bytes, position + 1, Min(position + size, Len(bytes)))

\* GasMeter.consume_gas(amount): OutOfGas when amount exceeds what remains
GasSuffices(remaining, amount) == amount <= remaining

(***************************************************************************)
(* The opcodes of evm/logic/context.py.  The words an opcode pops are its  *)
(* inputs; stack holds the values the opcodes pushed.                      *)
(***************************************************************************)
Executed(name, addr, mem_start, src_start, size) ==
    [name |-> name, addr |-> addr, mem_start |-> mem_start,
     src_start |-> src_start, size |-> size]

\* The arguments memory.write is called with, and the size of the memory then
WriteCall(start, size, value, mem_size) ==
    [called |-> TRUE, start |-> start, size |-> size, value |-> value,
     mem_size |-> mem_size]

NoWriteCall == [called |-> FALSE, start |-> 0, size |-> 0, value |-> <<>>, mem_size |-> 0]

Bytes(value) == [kind |-> "bytes", bytes |-> value, int |-> 0]
Integer(value) == [kind |-> "int", bytes |-> <<>>, int |-> value]

CopyFeeOneWordLess(size) == ((ceil32(size) \div 32) - 1) * GAS_COPY

CopyFeeOfWholeWords(size) == (size \div 32) * GAS_COPY

\* lines 64-65, 89-90, 127-128: the fee of a copy of size bytes
CopyFee(size) == (ceil32(size) \div 32) * GAS_COPY

CopyMemoryWrittenFirst(mem, charged, mem_start, size, padded) ==
    MemoryWrite(extend_memory(mem, mem_start, size), mem_start, size, padded)

\* lines 62-72, 87-102, 125-140: the memory a copy opcode leaves: extended
\* before the fee is charged, written only after the charge succeeded
CopyMemory(mem, charged, mem_start, size, padded) ==
    LET extended == extend_memory(mem, mem_start, size)
    IN  IF charged THEN MemoryWrite(extended, mem_start, size, padded) ELSE extended

\* The common course of the three copy opcodes, given the bytes read from
\* the source.
Copy(name, addr, mem_start, src_start, size, value) ==
    LET extended == extend_memory(memory, mem_start, size)
        fee == CopyFee(size)
        charged == GasSuffices(gas_remaining, fee)
        padded == pad_right(value, size, 0)
        writable == MemoryWriteOk(extended, mem_start, size, padded)
    IN  /\ error = ""
        /\ op' = Executed(name, addr, mem_start, src_start, size)
        /\ gas_remaining' = IF charged THEN gas_remaining - fee ELSE gas_remaining
        /\ memory' = CopyMemory(memory, charged /\ writable, mem_start, size, padded)
        /\ error' = IF ~charged THEN "OutOfGas"
                    ELSE IF ~writable THEN "ValidationError" ELSE ""
        /\ write_call' = IF charged
                         THEN WriteCall(mem_start, size, padded, Len(extended))
                         ELSE NoWriteCall
        /\ UNCHANGED <<msg_data, code, stack, vmVars, viewVars, dispVars, restVars>>

\* lines 55-72
calldatacopy(mem_start_position, calldata_start_position, size) ==
    Copy("calldatacopy", 0, mem_start_position, calldata_start_position, size,
         Slice(msg_data, calldata_start_position, calldata_start_position + size))

\* lines 80-102
codecopy(mem_start_position, code_start_position, size) ==
    Copy("codecopy", 0, mem_start_position, code_start_position, size,
         CodeRead(code, code_start_position, size))

\* lines 117-140; the read-only acquisition opens and releases within the opcode
extcodecopy(account, mem_start_position, code_start_position, size) ==
    LET root == AcquireRoot(state_root)
        account_code == get_code(db, root, account)
    IN  /\ ReleaseOk(TRUE, state_root, root)
        /\ Copy("extcodecopy", account, mem_start_position, code_start_position, size,
                Slice(account_code, code_start_position, code_start_position + size))

CallDataWordUnpadded(data, start_position) ==
    lstrip(Slice(data, start_position, start_position + 32), 0)

CallDataWordPaddedLeft(data, start_position) ==
    LET value == Slice(data, start_position, start_position + 32)
    IN  lstrip(Zeros(32 - Len(value)) \o value, 0)

\* lines 43-45: the value calldataload pushes
CallDataWord(data, start_position) ==
    lstrip(pad_right(Slice(data, start_position, start_position + 32), 32, 0), 0)

Push(value) ==
    /\ Len(stack) < MaxStack
    /\ stack' = Append(stack, value)

\* lines 37-47
calldataload(start_position) ==
    /\ error = ""
    /\ Push(Bytes(CallDataWord(msg_data, start_position)))
    /\ op' = Executed("calldataload", 0, 0, start_position, 32)
    /\ UNCHANGED <<msg_data, code, memory, gas_remaining, error, write_call, vmVars, viewVars, dispVars, restVars>>

\* lines 14-18
balance(addr) ==
    LET root == AcquireRoot(state_root)
    IN  /\ error = ""
        /\ ReleaseOk(TRUE, state_root, root)
        /\ Push(Integer(get_balance(db, root, addr)))
        /\ op' = Executed("balance", addr, 0, 0, 0)
        /\ UNCHANGED <<msg_data, code, memory, gas_remaining, error, write_call, vmVars, viewVars, dispVars, restVars>>

extcodesizeOfRunningCode(account) ==
    /\ error = ""
    /\ Push(Integer(Len(code)))
    /\ op' = Executed("extcodesize", account, 0, 0, 0)
    /\ UNCHANGED <<msg_data, code, memory, gas_remaining, error, write_call, vmVars, viewVars, dispVars, restVars>>

\* lines 109-114
extcodesize(account) ==
    LET root == AcquireRoot(state_root)
    IN  /\ error = ""
        /\ ReleaseOk(TRUE, state_root, root)
        /\ Push(Integer(Len(get_code(db, root, account))))
        /\ op' = Executed("extcodesize", account, 0, 0, 0)
        /\ UNCHANGED <<msg_data, code, memory, gas_remaining, error, write_call, vmVars, viewVars, dispVars, restVars>>

(***************************************************************************)
(* The opcode table of a VM class (base.py 32) and VM.get_opcode_fn        *)
(* (base.py 275-279).  A table is a set of <<byte, operation>> pairs; a    *)
(* class that was never given one holds None.                              *)
(***************************************************************************)
OpcodeBytes == 0..255

Tables == { {}, {<<0, "STOP">>, <<53, "CALLDATALOAD">>, <<255, "SUICIDE">>} }

\* line 32: opcodes = None
NoOpcodes == [is_none |-> TRUE, table |-> {}]

OpcodeTable(table) == [is_none |-> FALSE, table |-> table]

Mapped(table, opcode) == \E e \in table : e[1] = opcode

Lookup(table, opcode) == (CHOOSE e \in table : e[1] = opcode)[2]

Operation(name) == [kind |-> "operation", name |-> name, value |-> 0]

InvalidOpcode(value) == [kind |-> "InvalidOpcode", name |-> "INVALID", value |-> value]

NoOperation == [kind |-> "none", name |-> "", value |-> 0]

Dispatch(opcode, outcome, fn) == [opcode |-> opcode, outcome |-> outcome, fn |-> fn]

NoDispatch == Dispatch(0, "none", NoOperation)

GetOpcodeFnAnyErrorCaught(attr, opcode) ==
    IF ~attr.is_none /\ Mapped(attr.table, opcode)
    THEN Dispatch(opcode, "returned", Operation(Lookup(attr.table, opcode)))
    ELSE Dispatch(opcode, "returned", InvalidOpcode(opcode))

\* lines 276-279: the outcome of self.opcodes[opcode] under "except KeyError"
GetOpcodeFn(attr, opcode) ==
    IF attr.is_none THEN Dispatch(opcode, "TypeError", NoOperation)
    ELSE IF Mapped(attr.table, opcode)
         THEN Dispatch(opcode, "returned", Operation(Lookup(attr.table, opcode)))
         ELSE Dispatch(opcode, "returned", InvalidOpcode(opcode))

\* VM.configure(opcodes = attr): a class with the attribute overridden
configure(attr) ==
    /\ opcodes' = attr
    /\ dispatched' = NoDispatch
    /\ UNCHANGED <<vmVars, viewVars, compVars, restVars>>

get_opcode_fn(opcode) ==
    /\ dispatched' = GetOpcodeFn(opcodes, opcode)
    /\ UNCHANGED <<opcodes, vmVars, viewVars, compVars, restVars>>


(***************************************************************************)
(* VM.import_block (base.py 123-139), VM.apply_transaction (82-88) and     *)
(* VM.mine_block (141-174), a step at a time.  pc names the step that      *)
(* comes next and the index of the transaction or uncle it is about.       *)
(***************************************************************************)
BlockNumbers == {0, 10}

Uncles ==
    { [block_number |-> 9, coinbase |-> 1],
      [block_number |-> 4, coinbase |-> 2],
      [block_number |-> 1, coinbase |-> 2] }

\* What execute_transaction does: it returns a computation that succeeded, a
\* computation that holds its failure, or it raises.
Outcomes == {"success", "failure", "raise"}

SeqsUpTo(S, n) == UNION { [1..k -> S] : k \in 0..n }

At(label, i) == [at |-> label, i |-> i]

Step(kind, i, item, outcome) ==
    [kind |-> kind, i |-> i, item |-> item, outcome |-> outcome]

NoMining == [start_root |-> 0, start_world |-> BlankWorld, credits |-> <<>>, header_writes |-> 0]

Funded == [BlankWorld EXCEPT ![1].balance = MaxBalance, ![2].balance = MaxBalance + 4]

ImportOrderUnclesFirst(label, i, transactions, uncles) ==
    CASE label = "configure_header" ->
            IF uncles # <<>> THEN At("add_uncle", 1)
            ELSE IF transactions # <<>> THEN At("execute_transaction", 1)
            ELSE At("mine_block", 0)
      [] label = "add_uncle" ->
            IF i < Len(uncles) THEN At("add_uncle", i + 1)
            ELSE IF transactions # <<>> THEN At("execute_transaction", 1)
            ELSE At("mine_block", 0)
      [] label = "add_transaction" ->
            IF i < Len(transactions) THEN At("execute_transaction", i + 1)
            ELSE At("mine_block", 0)

\* lines 133-139: the step of import_block that follows the step label, i
ImportOrder(label, i, transactions, uncles) ==
    CASE label = "configure_header" ->
            IF transactions # <<>> THEN At("execute_transaction", 1)
            ELSE IF uncles # <<>> THEN At("add_uncle", 1)
            ELSE At("mine_block", 0)
      [] label = "add_transaction" ->
            IF i < Len(transactions) THEN At("execute_transaction", i + 1)
            ELSE IF uncles # <<>> THEN At("add_uncle", 1)
            ELSE At("mine_block", 0)
      [] label = "add_uncle" ->
            IF i < Len(uncles) THEN At("add_uncle", i + 1)
            ELSE At("mine_block", 0)

\* lines 124-131; configure_header sets the fields of the current header
configure_header ==
    /\ pc = At("import_block", 0)
    /\ block' = [block EXCEPT !.coinbase = block_in.coinbase]
    /\ pc' = ImportOrder("configure_header", 0, block_in.transactions, block_in.uncles)
    /\ events' = Append(events, Step("configure_header", 0, 0, ""))
    /\ UNCHANGED <<block_in, mining, vmVars, viewVars, compVars, dispVars, otherVars>>

ReachesAddOnSuccessOnly(outcome) == outcome = "success"

\* lines 86-87: whether apply_transaction gets from execute_transaction to
\* block.add_transaction
ReachesAdd(outcome) == outcome # "raise"

\* line 86: computation = self.execute_transaction(transaction)
execute_transaction(outcome) ==
    /\ pc.at = "execute_transaction"
    /\ pc' = IF ReachesAdd(outcome) THEN At("add_transaction", pc.i)
             ELSE At("raised", pc.i)
    /\ events' = Append(events,
                        Step("execute", pc.i, block_in.transactions[pc.i], outcome))
    /\ UNCHANGED <<block_in, block, mining, vmVars, viewVars, compVars, dispVars, otherVars>>

\* line 87: self.block.add_transaction(transaction, computation)
add_transaction ==
    /\ pc.at = "add_transaction"
    /\ LET executed == events[Len(events)]
       IN  /\ block' = [block EXCEPT !.transactions =
                           Append(@, [transaction |-> executed.item,
                                      computation |-> executed.outcome])]
           /\ events' = Append(events, Step("add", pc.i, executed.item, executed.outcome))
    /\ pc' = ImportOrder("add_transaction", pc.i, block_in.transactions, block_in.uncles)
    /\ UNCHANGED <<block_in, mining, vmVars, viewVars, compVars, dispVars, otherVars>>

\* lines 136-137: self.block.add_uncle(uncle)
add_uncle ==
    /\ pc.at = "add_uncle"
    /\ block' = [block EXCEPT !.uncles = Append(@, block_in.uncles[pc.i])]
    /\ events' = Append(events, Step("uncle", pc.i, 0, ""))
    /\ pc' = ImportOrder("add_uncle", pc.i, block_in.transactions, block_in.uncles)
    /\ UNCHANGED <<block_in, mining, vmVars, viewVars, compVars, dispVars, otherVars>>

BlockRewardWithoutNephews(number, uncle_count) == BLOCK_REWARD

\* lines 151-153, with get_block_reward (112-113) and get_nephew_reward (115-116)
BlockReward(number, uncle_count) == BLOCK_REWARD + (uncle_count * NEPHEW_REWARD)

\* lines 161-163
UncleReward(uncle_number, number) ==
    (BLOCK_REWARD * (UNCLE_DEPTH_PENALTY_FACTOR + uncle_number - number))
        \div UNCLE_DEPTH_PENALTY_FACTOR

\* lines 145-149 and 155: block.mine(), the early return for block number 0,
\* and the acquisition of the State
mine_block ==
    /\ pc.at = "mine_block"
    /\ block' = [block EXCEPT !.mined = TRUE]
    /\ events' = Append(events, Step("mine", 0, 0, ""))
    /\ mining' = [start_root |-> state_root, start_world |-> Resolve(db, state_root),
                  credits |-> <<>>, header_writes |-> 0]
    /\ IF block.number = 0
       THEN pc' = At("done", 0) /\ scopes' = scopes
       ELSE /\ pc' = At("reward", 0)
            /\ scopes' = Append(scopes, Scope(FALSE, AcquireRoot(state_root)))
    /\ UNCHANGED <<block_in, db, state_root, token, snap, last, viewVars, compVars, dispVars, otherVars>>

\* state_db.delta_balance(address, amount) on the State of the acquisition;
\* a balance is an unsigned number, and an amount that would take it below
\* zero fails, which leaves the scope by the error
Credit(address, amount, next) ==
    LET before == Resolve(db, Top.root)
        after == ApplyMutation(before, [kind |-> "delta_balance", addr |-> address,
                                        key |-> 0, arg |-> amount])
    IN  IF after[address].balance >= 0
        THEN /\ db' = db \cup {after}
             /\ scopes' = [scopes EXCEPT ![Len(scopes)].root = RootHash(after)]
             /\ state_root' = state_root
             /\ mining' = [mining EXCEPT !.credits =
                              Append(@, [address |-> address, amount |-> amount])]
             /\ events' = Append(events, Step("credit", Len(mining.credits), address, ""))
             /\ pc' = next
        ELSE /\ db' = db
             /\ scopes' = SubSeq(scopes, 1, Len(scopes) - 1)
             /\ state_root' = RaiseHeader(FALSE, state_root, Top.root)
             /\ mining' = mining
             /\ events' = Append(events, Step("credit_failed", Len(mining.credits), address, ""))
             /\ pc' = At("raised", 0)

\* line 156
reward_coinbase ==
    /\ pc.at = "reward"
    /\ Credit(block.coinbase, BlockReward(block.number, Len(block.uncles)),
              IF block.uncles # <<>> THEN At("uncle_reward", 1) ELSE At("release", 0))
    /\ UNCHANGED <<block_in, block, token, snap, last, viewVars, compVars, dispVars, otherVars>>

\* lines 160-164
reward_uncle ==
    /\ pc.at = "uncle_reward"
    /\ Credit(block.uncles[pc.i].coinbase,
              UncleReward(block.uncles[pc.i].block_number, block.number),
              IF pc.i < Len(block.uncles) THEN At("uncle_reward", pc.i + 1)
              ELSE At("release", 0))
    /\ UNCHANGED <<block_in, block, token, snap, last, viewVars, compVars, dispVars, otherVars>>

\* the end of the with statement of line 155: the release of state_db
mine_release ==
    /\ pc.at = "release"
    /\ state_root' = ReleaseHeader(FALSE, state_root, Top.root)
    /\ scopes' = SubSeq(scopes, 1, Len(scopes) - 1)
    /\ mining' = [mining EXCEPT !.header_writes =
                     IF state_root' # state_root THEN @ + 1 ELSE @]
    /\ events' = Append(events, Step("release", 0, 0, ""))
    /\ pc' = At("done", 0)
    /\ UNCHANGED <<block_in, block, db, token, snap, last, viewVars, compVars, dispVars, otherVars>>

(***************************************************************************)
(* VM.get_ancestor_hash (base.py 220-230) over a chain of stored headers   *)
(* in which every parent's number is one less than its child's.            *)
(***************************************************************************)
CurrentNumbers == {0, 1, 3, 300}

Targets == {0, 1, 2, 3, 5, 43, 44, 299, 300, 301}

\* The hash of the header of the chain with the given number.
HeaderHash(number) == 7 * number + 3

\* evm.utils.blocks.get_block_header_by_hash(db, hash)
get_block_header_by_hash(hash) ==
    LET number == (hash - 3) \div 7
    IN  [block_number |-> number, parent_hash |-> HeaderHash(number - 1), hash |-> hash]

EmptyBytes == [empty |-> TRUE, hash |-> 0]

HashBytes(hash) == [empty |-> FALSE, hash |-> hash]

NoHeader == [block_number |-> 0, parent_hash |-> 0, hash |-> 0]

Walk(label, target, h, links, result) ==
    [at |-> label, target |-> target, h |-> h, links |-> links, result |-> result]

NoWalk == Walk("idle", 0, NoHeader, 0, EmptyBytes)

AncestorInReachBelow256(ancestor_depth) ==
    ~(ancestor_depth >= 256 \/ ancestor_depth < 1)

\* line 225
AncestorInReach(ancestor_depth) ==
    ~(ancestor_depth > 256 \/ ancestor_depth < 1)

\* lines 224-227: the call, up to the first header fetched
get_ancestor_hash(block_number) ==
    /\ walk.at \in {"idle", "returned"}
    /\ LET ancestor_depth == block.number - block_number
       IN  walk' = IF ~AncestorInReach(ancestor_depth)
                   THEN Walk("returned", block_number, NoHeader, 0, EmptyBytes)
                   ELSE Walk("loop", block_number,
                             get_block_header_by_hash(HeaderHash(block.number - 1)),
                             1, EmptyBytes)
    /\ UNCHANGED <<vmVars, viewVars, compVars, dispVars, blockVars, classes, configured>>

\* lines 228-230: one test of the loop
follow_parent ==
    /\ walk.at = "loop"
    /\ walk' = IF walk.h.block_number # walk.target
               THEN Walk("loop", walk.target,
                         get_block_header_by_hash(walk.h.parent_hash),
                         walk.links + 1, EmptyBytes)
               ELSE Walk("returned", walk.target, walk.h, walk.links,
                         HashBytes(walk.h.hash))
    /\ UNCHANGED <<vmVars, viewVars, compVars, dispVars, blockVars, classes, configured>>

(***************************************************************************)
(* VM.configure (base.py 44-58) over the classes that exist.  A class has  *)
(* a name, the class it derives from and the attributes set on itself; an  *)
(* attribute it does not set is looked up in the class it derives from.    *)
(***************************************************************************)
AttributeKeys == {"db", "opcodes", "fork"}

AttributeValues == {"A", "B"}

ClassNames == {"", "Frontier"}

Overrides == UNION { [keys -> AttributeValues] : keys \in SUBSET AttributeKeys }

Class(name, base, own) == [name |-> name, base |-> base, own |-> own]

\* lines 23-33: class VM(object) with db, opcodes and _block_class set to None
BaseVM ==
    Class("VM", 0, [key \in {"db", "opcodes", "_block_class"} |-> "None"])

\* hasattr(cls, key)
RECURSIVE HasAttr(_, _, _)
HasAttr(all, cls, key) ==
    IF key \in DOMAIN all[cls].own THEN TRUE
    ELSE IF all[cls].base = 0 THEN FALSE
    ELSE HasAttr(all, all[cls].base, key)

\* getattr(cls, key), for a key the class has
RECURSIVE GetAttr(_, _, _)
GetAttr(all, cls, key) ==
    IF key \in DOMAIN all[cls].own THEN all[cls].own[key]
    ELSE GetAttr(all, all[cls].base, key)

\* lines 51-57: whether the loop over the overrides raises TypeError
ConfigureRaises(all, cls, overrides) ==
    \E key \in DOMAIN overrides : ~HasAttr(all, cls, key)

ConfiguredInPlace(all, cls, name, overrides) ==
    [all EXCEPT ![cls].own =
        [key \in DOMAIN @ \cup DOMAIN overrides |->
            IF key \in DOMAIN overrides THEN overrides[key] ELSE @[key]]]

\* lines 47-48 and 58: type(name, (cls,), overrides), name None standing for
\* the name of cls
Configured(all, cls, name, overrides) ==
    Append(all, Class(IF name = "" THEN all[cls].name ELSE name, cls, overrides))

Configuration(cls, name, overrides, outcome, before) ==
    [cls |-> cls, name |-> name, overrides |-> overrides, outcome |-> outcome,
     before |-> before]

NoConfiguration == Configuration(0, "", <<>>, "none", <<>>)

\* lines 44-58, called on the class cls
configure_class(cls, name, overrides) ==
    /\ Len(classes) < MaxClasses
    /\ IF ConfigureRaises(classes, cls, overrides)
       THEN /\ classes' = classes
            /\ configured' = Configuration(cls, name, overrides, "TypeError", classes)
       ELSE /\ classes' = Configured(classes, cls, name, overrides)
            /\ configured' = Configuration(cls, name, overrides, "returned", classes)
    /\ UNCHANGED <<vmVars, viewVars, compVars, dispVars, blockVars, walk>>

(***************************************************************************)
(* The specifications.                                                     *)
(***************************************************************************)
Deployed == [BlankWorld EXCEPT ![1].balance = 1, ![1].code = CodeTable[2]]

Idle == Executed("none", 0, 0, 0, 0)

VMInit(world) ==
    /\ db = {world}
    /\ state_root = RootHash(world)
    /\ scopes = <<>>
    /\ token = <<>>
    /\ snap = world
    /\ last = Event("init", FALSE, TRUE, FALSE, FALSE)
    /\ opened = <<>>
    /\ shared = world
    /\ clean = TRUE
    /\ seen = [dirty |-> FALSE, changed |-> FALSE]

ComputationInit(data, program, gas) ==
    /\ msg_data = data
    /\ code = program
    /\ memory = <<>>
    /\ gas_remaining = gas
    /\ stack = <<>>
    /\ error = ""
    /\ op = Idle
    /\ write_call = NoWriteCall

DispatchInit ==
    /\ opcodes = NoOpcodes
    /\ dispatched = NoDispatch

BlockInit(number, given) ==
    /\ block_in = given
    /\ block = [number |-> number, coinbase |-> 1, transactions |-> <<>>,
                uncles |-> <<>>, mined |-> FALSE]
    /\ events = <<>>
    /\ mining = NoMining

NoBlock == [coinbase |-> 1, transactions |-> <<>>, uncles |-> <<>>]

OtherInit ==
    /\ walk = NoWalk
    /\ classes = <<BaseVM>>
    /\ configured = NoConfiguration

RestInit ==
    /\ BlockInit(0, NoBlock)
    /\ pc = At("idle", 0)
    /\ OtherInit

Init ==
    /\ VMInit(Genesis)
    /\ ComputationInit(<<>>, <<>>, 0)
    /\ DispatchInit
    /\ RestInit

Next ==
    \/ \E read_only \in BOOLEAN :
          Len(scopes) < MaxDepth /\ state_db_enter(read_only) /\ UNCHANGED viewVars
    \/ \E i \in 1..Len(scopes), m \in Mutations :
          state_mutate(i, m) /\ UNCHANGED viewVars
    \/ \E k \in 0..MaxDepth : state_db_exit(k) /\ UNCHANGED viewVars
    \/ \E k \in 1..MaxDepth : body_raise(k) /\ UNCHANGED viewVars
    \/ snapshot /\ UNCHANGED viewVars
    \/ revert /\ UNCHANGED viewVars

Spec == Init /\ [][Next]_vars

NextViews ==
    \/ \E read_only \in BOOLEAN :
          Len(scopes) < MaxNesting /\ state_db_enter(read_only) /\ ObserveEnter
    \/ \E i \in 1..Len(scopes), m \in Mutations :
          state_mutate(i, m) /\ ObserveMutate(i, m)
    \/ \E k \in 0..MaxNesting : state_db_exit(k) /\ ObserveLeave
    \/ \E k \in 1..MaxNesting : body_raise(k) /\ ObserveLeave

SpecViews == Init /\ [][NextViews]_vars

NextDispatch ==
    \/ \E attr \in {NoOpcodes} \cup {OpcodeTable(t) : t \in Tables} : configure(attr)
    \/ \E opcode \in OpcodeBytes : get_opcode_fn(opcode)

SpecDispatch == Init /\ [][NextDispatch]_vars

InitImport ==
    /\ VMInit(Funded)
    /\ ComputationInit(<<>>, <<>>, 0)
    /\ DispatchInit
    /\ \E number \in BlockNumbers, coinbase \in Addresses,
          n \in 0..MaxTransactions, uncles \in SeqsUpTo(Uncles, MaxUncles) :
          BlockInit(number, [coinbase |-> coinbase, transactions |-> [i \in 1..n |-> i],
                             uncles |-> uncles])
    /\ pc = At("import_block", 0)
    /\ OtherInit

NextImport ==
    \/ configure_header
    \/ \E outcome \in Outcomes : execute_transaction(outcome)
    \/ add_transaction
    \/ add_uncle
    \/ mine_block
    \/ reward_coinbase
    \/ reward_uncle
    \/ mine_release

SpecImport == InitImport /\ [][NextImport]_vars

InitAncestor ==
    /\ VMInit(Genesis)
    /\ ComputationInit(<<>>, <<>>, 0)
    /\ DispatchInit
    /\ \E number \in CurrentNumbers : BlockInit(number, NoBlock)
    /\ pc = At("idle", 0)
    /\ OtherInit

NextAncestor ==
    \/ \E block_number \in Targets : get_ancestor_hash(block_number)
    \/ follow_parent

SpecAncestor == InitAncestor /\ [][NextAncestor]_vars

NextConfigure ==
    \E cls \in 1..Len(classes), name \in ClassNames, overrides \in Overrides :
        configure_class(cls, name, overrides)

SpecConfigure == Init /\ [][NextConfigure]_vars

InitCopy ==
    /\ VMInit(Deployed)
    /\ \E data \in CallData, program \in Programs, gas \in GasBudgets :
          ComputationInit(data, program, gas)
    /\ DispatchInit
    /\ RestInit

NextCopy ==
    \/ \E m \in MemOffsets, s \in SrcOffsets, n \in Sizes : calldatacopy(m, s, n)
    \/ \E m \in MemOffsets, s \in SrcOffsets, n \in Sizes : codecopy(m, s, n)
    \/ \E a \in Addresses, m \in MemOffsets, s \in SrcOffsets, n \in Sizes :
          extcodecopy(a, m, s, n)

SpecCopy == InitCopy /\ [][NextCopy]_vars

InitLoad ==
    /\ VMInit(Deployed)
    /\ \E data \in CallData, program \in Programs :
          ComputationInit(data, program, MaxGas)
    /\ DispatchInit
    /\ RestInit

NextLoad ==
    \/ \E o \in LoadOffsets : calldataload(o)
    \/ \E a \in Addresses : balance(a)
    \/ \E a \in Addresses : extcodesize(a)

SpecLoad == InitLoad /\ [][NextLoad]_vars

InitRead ==
    /\ VMInit(Deployed)
    /\ \E data \in CallData, program \in Programs, gas \in GasBudgets :
          ComputationInit(data, program, gas)
    /\ DispatchInit
    /\ RestInit

NextRead ==
    \/ \E a \in Addresses : balance(a)
    \/ \E a \in Addresses : extcodesize(a)
    \/ \E a \in Addresses, m \in MemOffsets, s \in SrcOffsets, n \in Sizes :
          extcodecopy(a, m, s, n)

SpecRead == InitRead /\ [][NextRead]_vars

(***************************************************************************)
(* The properties checked, by the number of the claim they settle.         *)
(***************************************************************************)

\* The bytes a copy opcode reads from: the message's data, the executing
\* code, or the code of the account named by the popped address.
CopySource(executed) ==
    CASE executed.name = "calldatacopy" -> msg_data
      [] executed.name = "codecopy" -> code
      [] executed.name = "extcodecopy" -> Resolve(db, state_root)[executed.addr].code
      [] OTHER -> <<>>

CopyWords(size) == (size + 31) \div 32

CopyWritesSourceWindow ==
    [][error = "" =>
        /\ error' \in {"", "OutOfGas"}
        /\ error' = "" =>
              LET source == CopySource(op')
              IN  /\ \A i \in 0..(op'.size - 1) :
                        memory'[op'.mem_start + i + 1] =
                            IF op'.src_start + i < Len(source)
                            THEN source[op'.src_start + i + 1] ELSE 0
                  /\ \A j \in 1..Len(memory) :
                        (j <= op'.mem_start \/ j > op'.mem_start + op'.size)
                            => memory'[j] = memory[j]
    ]_vars

CopyPastEndOfSource ==
    /\ error = ""
    /\ op.name = "calldatacopy"
    /\ op.size > 0
    /\ op.src_start > 0
    /\ op.src_start < Len(CopySource(op))
    /\ op.src_start + op.size > Len(CopySource(op))
    /\ memory[op.mem_start + 1] # 0

\* The 32-byte window data[start : start + 32], zero-padded on the right.
Window(data, start) ==
    [i \in 1..32 |-> IF start + i <= Len(data) THEN data[start + i] ELSE 0]

Pushed == stack[Len(stack)].bytes

\* C3: CALLDATALOAD pushes the bytes whose big-endian integer is that of
\* the 32-byte window D[o:o+32] zero-padded on the right (the pushed bytes,
\* zero-padded on the left to 32 bytes, are the window; they carry no
\* leading zero byte); the value is 0 (no bytes) whenever len(D) <= o; and
\* no offset makes the opcode fail.
CallDataLoadPushesWindow ==
    op.name = "calldataload" =>
        /\ error = ""
        /\ stack[Len(stack)].kind = "bytes"
        /\ Len(Pushed) <= 32
        /\ Pushed # <<>> => Pushed[1] # 0
        /\ Zeros(32 - Len(Pushed)) \o Pushed = Window(msg_data, op.src_start)
        /\ Len(msg_data) <= op.src_start => Pushed = <<>>

CallDataLoadShortWindow ==
    /\ op.name = "calldataload"
    /\ op.src_start > 0
    /\ op.src_start < Len(msg_data)
    /\ op.src_start + 32 > Len(msg_data)
    /\ Pushed # <<>>

\* C4 as stated: CALLDATALOAD with offset 0 on the input data 0x01 pushes the
\* integer 1, the word whose only non-zero byte is its last.
CallDataLoadOfOnePushesOne ==
    (op.name = "calldataload" /\ op.src_start = 0 /\ msg_data = <<1>>) =>
        Zeros(32 - Len(Pushed)) \o Pushed = Zeros(31) \o <<1>>

\* C4 as amended: CALLDATALOAD with offset 0 on the input data 0x01 pushes
\* the word 0x0100...00, the byte 0x01 followed by 31 zero bytes.
CallDataLoadOfOnePushesTopByte ==
    (op.name = "calldataload" /\ op.src_start = 0 /\ msg_data = <<1>>) =>
        Pushed = <<1>> \o Zeros(31)

CallDataLoadOfOne ==
    op.name = "calldataload" /\ op.src_start = 0 /\ msg_data = <<1>>

\* C11: import_block applies the transactions one after the other in the
\* order of the block, each executed and then added before the next starts;
\* the uncles are added after the last transaction; mining and its credits
\* come after all transactions and uncles, and nothing is applied after.
ImportAppliesInOrder ==
    LET transactions == block_in.transactions
        uncles == block_in.uncles
        mined_at == 2 + 2 * Len(transactions) + Len(uncles)
    IN  /\ \A p \in 1..Len(events) :
              LET e == events[p]
              IN  /\ e.kind = "configure_header" => p = 1
                  /\ e.kind = "execute" => (p = 2 * e.i /\ e.item = transactions[e.i])
                  /\ e.kind = "add" => (p = 2 * e.i + 1 /\ e.item = transactions[e.i])
                  /\ e.kind = "uncle" => p = 1 + 2 * Len(transactions) + e.i
                  /\ e.kind = "mine" => p = mined_at
                  /\ e.kind \in {"credit", "credit_failed", "release"} => p > mined_at
        /\ \A k \in 1..Len(block.transactions) :
              block.transactions[k].transaction = transactions[k]
        /\ block.mined =>
              /\ Len(block.transactions) = Len(transactions)
              /\ block.uncles = uncles

ImportedTransactionsAndUncles ==
    /\ pc.at = "done"
    /\ block.number # 0
    /\ Len(block.transactions) = 2
    /\ Len(block.uncles) = 2

\* The number of entries of the block for a transaction.
Inclusions(transaction) ==
    Cardinality({k \in 1..Len(block.transactions) :
                    block.transactions[k].transaction = transaction})

\* The executions whose apply_transaction has ended, by return or by error.
Applied ==
    {p \in 1..Len(events) :
        events[p].kind = "execute" /\ (p < Len(events) \/ pc.at = "raised")}

\* C15 as stated: every transaction passed to apply_transaction is in the
\* current block exactly once when apply_transaction has ended, whatever
\* the outcome of its execution.
TransactionAlwaysIncluded ==
    \A p \in Applied : Inclusions(events[p].item) = 1

\* C15 as amended: a transaction whose execution returns a computation, one
\* that succeeded or one that holds a failure, is in the current block exactly
\* once, with that computation, and is added directly after its execution; a
\* transaction whose execution raises is not added, and the error ends the
\* import.
TransactionIncludedUnlessRaised ==
    /\ \A p \in Applied :
          IF events[p].outcome \in {"success", "failure"}
          THEN /\ Inclusions(events[p].item) = 1
               /\ \E k \in 1..Len(block.transactions) :
                     block.transactions[k] = [transaction |-> events[p].item,
                                              computation |-> events[p].outcome]
          ELSE Inclusions(events[p].item) = 0 /\ pc.at = "raised" /\ p = Len(events)
    /\ \A p \in 1..Len(events) :
          events[p].kind = "add" =>
              /\ events[p - 1].kind = "execute"
              /\ events[p - 1].item = events[p].item
    /\ Len(block.transactions) =
          Cardinality({p \in 1..Len(events) : events[p].kind = "add"})

FailedTransactionIncluded ==
    /\ pc.at = "done"
    /\ \E k \in 1..Len(block.transactions) : block.transactions[k].computation = "failure"

\* C12: over any sequence of opcodes of one Computation the gas remaining
\* never increases and is never negative, and a charge that exceeds what
\* remains fails with OutOfGas and leaves the gas remaining as it was.
GasNeverIncreases ==
    [][/\ gas_remaining' <= gas_remaining
       /\ gas_remaining' >= 0
       /\ (error = "" /\ error' = "OutOfGas") => gas_remaining' = gas_remaining
    ]_vars

OutOfGasWithGasLeft ==
    error = "OutOfGas" /\ gas_remaining > 0 /\ op.size > 32

\* C13: BALANCE, EXTCODESIZE and EXTCODECOPY leave the header's state_root
\* and the balance and code of every account as they were; for an address
\* with no account BALANCE pushes 0, EXTCODESIZE pushes 0 and EXTCODECOPY
\* writes zero bytes only, and none of them fails for the address it is given
\* (EXTCODECOPY fails only when its copy fee exceeds the gas remaining).
ExternalReadsOnlyRead ==
    [][error = "" =>
        LET before == Resolve(db, state_root)
            after == Resolve(db', state_root')
            absent == before[op'.addr] = BlankAccount
        IN  /\ state_root' = state_root
            /\ \A a \in Addresses :
                  after[a].balance = before[a].balance /\ after[a].code = before[a].code
            /\ op'.name \in {"balance", "extcodesize"} =>
                  /\ error' = ""
                  /\ absent => stack'[Len(stack')] = Integer(0)
            /\ op'.name = "extcodecopy" =>
                  /\ (error' # "") =>
                        (error' = "OutOfGas" /\ gas_remaining < CopyWords(op'.size) * GAS_COPY)
                  /\ (absent /\ error' = "") =>
                        \A i \in 1..op'.size : memory'[op'.mem_start + i] = 0
    ]_vars

AbsentAccountRead ==
    /\ op.name = "extcodesize"
    /\ Resolve(db, state_root)[op.addr] = BlankAccount
    /\ code # <<>>
    /\ stack[Len(stack)] = Integer(0)

\* C14: the fee a copy opcode pays is GAS_COPY for every 32 bytes of the
\* popped size, a started 32 bytes counting as whole, whatever the offsets
\* and the source: nothing for size 0, GAS_COPY for every size from 1 to 32.
CopyFeeIsPerWord ==
    [][(error = "" /\ error' # "OutOfGas") =>
        LET paid == gas_remaining - gas_remaining'
            words == CHOOSE w \in 0..op'.size :
                        32 * w >= op'.size /\ (w = 0 \/ 32 * (w - 1) < op'.size)
        IN  /\ paid = words * GAS_COPY
            /\ op'.size = 0 => paid = 0
            /\ op'.size \in 1..32 => paid = GAS_COPY
    ]_vars

CopyOfTwoWordsPaid ==
    error = "" /\ op.size = 33 /\ write_call.called

\* C16: at every call of memory.write by a copy opcode the data passed has
\* exactly size bytes (the bytes read from the source are no more than size)
\* and the region from memOffset to memOffset + size lies within the memory
\* as extended before.
WritePreconditionsHold ==
    write_call.called =>
        /\ Len(write_call.value) = write_call.size
        /\ write_call.start + write_call.size <= write_call.mem_size
        /\ write_call.size = op.size
        /\ write_call.start = op.mem_start
        /\ error = ""

WriteOfPaddedShortSource ==
    /\ write_call.called
    /\ write_call.size > 0
    /\ write_call.start > 0
    /\ op.src_start < Len(CopySource(op))
    /\ op.src_start + op.size > Len(CopySource(op))

\* The sum of the first k credits made to an address.
RECURSIVE CreditedTo(_, _, _)
CreditedTo(credits, address, k) ==
    IF k = 0 THEN 0
    ELSE CreditedTo(credits, address, k - 1)
            + (IF credits[k].address = address THEN credits[k].amount ELSE 0)

BalanceAt(root, address) == Resolve(db, root)[address].balance

\* C17 as stated: mine_block credits a non-negative amount for every uncle
\* of the block and never decreases the balance of an account.
MiningNeverDebits ==
    block.mined =>
        /\ \A k \in 1..Len(mining.credits) : mining.credits[k].amount >= 0
        /\ pc.at = "done" =>
              \A a \in Addresses : BalanceAt(state_root, a) >= mining.start_world[a].balance

\* C17 as amended: for block number 0 mine_block changes no balance and
\* leaves the header's state_root as it was; for any other block it credits
\* the coinbase with BLOCK_REWARD + len(uncles) * NEPHEW_REWARD and then each
\* uncle's coinbase with BLOCK_REWARD * (UNCLE_DEPTH_PENALTY_FACTOR +
\* uncle.block_number - block.number) // UNCLE_DEPTH_PENALTY_FACTOR, which is
\* non-negative exactly when the uncle is at most UNCLE_DEPTH_PENALTY_FACTOR
\* numbers behind the block; the header's state_root is not touched before
\* the last credit, and when every uncle is that near no balance decreases
\* and the header is updated once, after all credits.
MiningCreditsRewards ==
    block.mined =>
        LET credits == mining.credits
            near(u) == block.number - u.block_number <= UNCLE_DEPTH_PENALTY_FACTOR
        IN  /\ block.number = 0 =>
                  /\ pc.at = "done"
                  /\ credits = <<>>
                  /\ state_root = mining.start_root
            /\ pc.at \in {"reward", "uncle_reward", "release"} =>
                  /\ state_root = mining.start_root
                  /\ mining.header_writes = 0
            /\ \A k \in 1..Len(credits) :
                  IF k = 1
                  THEN credits[1] = [address |-> block.coinbase,
                                     amount |-> BLOCK_REWARD + Len(block.uncles) * NEPHEW_REWARD]
                  ELSE LET u == block.uncles[k - 1]
                       IN  /\ credits[k].address = u.coinbase
                           /\ credits[k].amount =
                                 (BLOCK_REWARD * (UNCLE_DEPTH_PENALTY_FACTOR
                                     + u.block_number - block.number))
                                         \div UNCLE_DEPTH_PENALTY_FACTOR
                           /\ (credits[k].amount >= 0) <=> near(u)
            /\ (/\ block.number # 0
                /\ pc.at = "done"
                /\ \A j \in 1..Len(block.uncles) : near(block.uncles[j])) =>
                  /\ Len(credits) = 1 + Len(block.uncles)
                  /\ mining.header_writes = 1
                  /\ \A a \in Addresses :
                        /\ BalanceAt(state_root, a) =
                              mining.start_world[a].balance
                                  + CreditedTo(credits, a, Len(credits))
                        /\ BalanceAt(state_root, a) >= mining.start_world[a].balance

MinedWithUncles ==
    /\ pc.at = "done"
    /\ block.number # 0
    /\ Len(block.uncles) = 2
    /\ mining.header_writes = 1
    /\ \A j \in 1..2 : block.number - block.uncles[j].block_number <= UNCLE_DEPTH_PENALTY_FACTOR

\* C18: get_ancestor_hash(n) returns the empty byte string when the depth
\* block.number - n is below 1 or above 256; for every depth from 1 to 256
\* it ends after following exactly that many parent_hash links from the
\* current header and returns the hash of the header whose number is n.
AncestorWithinDepth ==
    LET depth == block.number - walk.target
    IN  /\ walk.at = "loop" =>
              /\ depth \in 1..256
              /\ walk.links <= depth
              /\ walk.h.block_number = block.number - walk.links
        /\ walk.at = "returned" =>
              IF depth < 1 \/ depth > 256
              THEN walk.result = EmptyBytes /\ walk.links = 0
              ELSE /\ walk.result = HashBytes(HeaderHash(walk.target))
                   /\ walk.h.block_number = walk.target
                   /\ walk.links = depth

AncestorAtFullDepth ==
    /\ walk.at = "returned"
    /\ block.number - walk.target = 256
    /\ walk.links = 256
    /\ ~walk.result.empty

\* C19: VM.configure raises TypeError and creates no class when an override
\* key is not an attribute of the class it is called on; otherwise it returns
\* a new subclass of that class that carries the overrides, named after the
\* class when no name is given; either way every class that existed keeps
\* its name, its base and its attributes.
ConfigureCreatesSubclass ==
    configured.outcome # "none" =>
        LET before == configured.before
        IN  /\ \A c \in 1..Len(before) : classes[c] = before[c]
            /\ \A key \in {"db", "opcodes", "_block_class"} :
                  GetAttr(classes, 1, key) = "None"
            /\ (configured.outcome = "TypeError") <=>
                  (\E key \in DOMAIN configured.overrides :
                      key \notin {"db", "opcodes", "_block_class"})
            /\ configured.outcome = "TypeError" => classes = before
            /\ configured.outcome = "returned" =>
                  /\ Len(classes) = Len(before) + 1
                  /\ classes[Len(classes)].base = configured.cls
                  /\ classes[Len(classes)].own = configured.overrides
                  /\ classes[Len(classes)].name =
                        IF configured.name = "" THEN before[configured.cls].name
                        ELSE configured.name
                  /\ \A key \in DOMAIN configured.overrides :
                        GetAttr(classes, Len(classes), key) = configured.overrides[key]

ConfiguredFromSubclass ==
    /\ configured.outcome = "returned"
    /\ configured.cls > 1
    /\ configured.name = ""
    /\ configured.overrides # <<>>
    /\ classes[Len(classes)].name = "Frontier"

\* C5: a read-only acquisition whose body performs no mutation releases
\* without failure and leaves the header's state_root unchanged, whatever
\* other acquisitions were opened and released while it was open; one whose
\* body changed its State's root fails the assertion on release and does not
\* write the header.
ReadOnlyReleaseChecksOwnBody ==
    (last.op = "exit" /\ last.read_only) =>
        /\ ~seen.dirty => (last.ok /\ ~last.wrote)
        /\ seen.changed => (~last.ok /\ ~last.wrote)

\* C6: immediately after a mutable acquisition releases normally the header's
\* state_root is the root_hash of the State it yielded (so the release changed
\* the header exactly when the two differed), and neither the acquire nor a
\* mutation of a State changes the header.
MutableReleaseWritesRoot ==
    /\ (last.op = "exit" /\ ~last.read_only) => (last.ok /\ ~last.stale)
    /\ last.op \in {"enter", "mutate"} => ~last.wrote

MutableReleaseWritten ==
    last.op = "exit" /\ ~last.read_only /\ last.ok /\ last.wrote

\* C7 as stated: the release step is performed on every exit path of the
\* scope, so that whenever a mutable acquisition goes out of scope, by the
\* normal end of its body or by an error, the header holds its State's root.
ReleaseOnEveryExitPath ==
    (last.op \in {"exit", "raise"} /\ ~last.read_only) => ~last.stale

\* C7 as amended: the release step is performed when the body ends normally
\* (a mutable acquisition leaves its State's root in the header; a read-only
\* one fails exactly when its State's root is not the header's, and leaves
\* the header as it was); when the body ends with an error no release step
\* is performed: the header is left as it was, whatever the root of the State.
ReleaseOnNormalExitOnly ==
    /\ (last.op = "exit" /\ ~last.read_only) => (last.ok /\ ~last.stale)
    /\ (last.op = "exit" /\ last.read_only) => ((last.ok <=> ~last.stale) /\ ~last.wrote)
    /\ last.op = "raise" => ~last.wrote

ErrorExitSkipsWriteBack ==
    last.op = "raise" /\ ~last.read_only /\ last.stale

\* C8: after token = VM.snapshot(), any mutations made through state_db
\* acquisitions, and VM.revert(token), the header's state_root and every
\* balance, nonce, code and storage value are those of the state the
\* snapshot was taken in.
SnapshotRevertRoundTrip ==
    last.op = "revert" =>
        /\ state_root = RootHash(snap)
        /\ \A a \in Addresses :
              /\ get_balance(db, state_root, a) = snap[a].balance
              /\ get_nonce(db, state_root, a) = snap[a].nonce
              /\ get_code(db, state_root, a) = snap[a].code
              /\ \A k \in StorageKeys :
                    get_storage(db, state_root, a, k) = snap[a].storage[k]

RevertUndoesMutation ==
    last.op = "revert" /\ last.wrote /\ scopes = <<>>

\* C9: for every opcode byte and every configuration of the VM class,
\* get_opcode_fn returns the operation the table maps the byte to when it is
\* mapped and InvalidOpcode(byte) when it is not, and never raises.
DispatchIsTotal ==
    dispatched.outcome # "none" =>
        /\ dispatched.outcome = "returned"
        /\ dispatched.fn =
              IF \E e \in opcodes.table : e[1] = dispatched.opcode
              THEN Operation((CHOOSE e \in opcodes.table : e[1] = dispatched.opcode)[2])
              ELSE InvalidOpcode(dispatched.opcode)

\* C10: all state access operates on the same underlying state: a State
\* opened by state_db sees every mutation made before through any other
\* acquisition, released or still open, and once every acquisition has
\* released the header's root holds every mutation made.
SameUnderlyingState == clean => ~Diverged

====
